---- MODULE Spec2Model ----
(***************************************************************************)
(* Model of the OAuth callback server (app.ts), of the GraphQL client     *)
(* helpers it drives (graphql_client.ts) and of the REST-backed listing   *)
(* behind the schema's projects field (services/apiService.js).           *)
(*                                                                         *)
(* JavaScript values are tagged records: [js |-> "undefined"],             *)
(* [js |-> "null"], [js |-> "string", s |-> ...], [js |-> "array",         *)
(* items |-> <<...>>] and [js |-> "object", <field> |-> <value>, ...].     *)
(* A request slot r stands for one in-flight invocation of a route         *)
(* handler; its suspension points are the awaits of the handler.          *)
(***************************************************************************)
EXTENDS Naturals, Sequences, FiniteSets

\* ------------------------------------------------------------------ bounds
MaxHubs == 2
MaxProjects == 2

Reqs == {"r1", "r2"}
Sessions == {"s1", "s2"}
Messages == {"e1", "e2"}
TokenStrings == {"", "t1", "t2"}
HubIds == {"h1", "h2"}
ProjectIds == {"p1", "p2"}

\* ------------------------------------------------------- JavaScript values
Undefined == [js |-> "undefined"]
Null == [js |-> "null"]
S(x) == [js |-> "string", s |-> x]
Arr(q) == [js |-> "array", items |-> q]
EmptyObj == [js |-> "object"]

\* o.f : a missing property reads as undefined
Get(o, f) == IF f \in DOMAIN o THEN o[f] ELSE Undefined

\* o?.f : undefined when o is undefined or null
OptGet(o, f) == IF o.js \in {"undefined", "null"} THEN Undefined ELSE Get(o, f)

\* v is undefined or null
Absent(v) == v.js \in {"undefined", "null"}

\* !v for the values that occur here
Falsy(v) == v.js \in {"undefined", "null"} \/ (v.js = "string" /\ v.s = "")

\* `${v}` inside a template literal
ToStr(v) == IF v.js = "string" THEN v.s ELSE v.js

\* a[i] with a zero-based index: out of range reads as undefined
At(a, i) == IF i + 1 \in 1..Len(a.items) THEN a.items[i + 1] ELSE Undefined

\* the message of the TypeError thrown by reading property f of null/undefined
TypeErrorMessage(v, f) ==
  S("Cannot read properties of " \o v.js \o " (reading '" \o f \o "')")

\* JSON.stringify as res.json applies it: properties whose value is undefined
\* are dropped, undefined array items become null
RECURSIVE Json(_)
Json(v) ==
  CASE v.js = "object" ->
         [f \in {g \in DOMAIN v : g = "js" \/ v[g] # Undefined} |->
            IF f = "js" THEN "object" ELSE Json(v[f])]
    [] v.js = "array" ->
         Arr([i \in 1..Len(v.items) |->
                IF v.items[i] = Undefined THEN Null ELSE Json(v.items[i])])
    [] OTHER -> v

\* ------------------------------------------------------- upstream replies
SeqsUpTo(X, n) == UNION {[1..k -> X] : k \in 0..n}

Hub(id) == [js |-> "object", id |-> S(id), name |-> S("Hub " \o id)]
Project(id) == [js |-> "object", id |-> S(id), name |-> S("Project " \o id)]
Pagination == [js |-> "object", cursor |-> Null]

\* process.env.CLIENT_ID and process.env.CLIENT_SECRET
Envs ==
  [CLIENT_ID : {Undefined, S(""), S("cid")},
   CLIENT_SECRET : {Undefined, S(""), S("secret")}]

\* req.query.code
CodeParams == {Undefined, S(""), S("c1")}

\* response.data of a 2xx reply of the token endpoint
TokenDatas ==
  {Null, EmptyObj} \cup
  {[js |-> "object", access_token |-> S(t)] : t \in TokenStrings}

\* data resolved by client.request for the GetHubs query, hubs q listed
HubsData(q) ==
  [js |-> "object",
   hubs |-> [js |-> "object", pagination |-> Pagination,
             results |-> Arr([i \in DOMAIN q |-> Hub(q[i])])]]

HubsResults ==
  {EmptyObj, [js |-> "object", hubs |-> Null],
   [js |-> "object", hubs |-> [js |-> "object", pagination |-> Pagination]]} \cup
  {HubsData(q) : q \in SeqsUpTo(HubIds, MaxHubs)}

\* data resolved by client.request for the GetProjects query, projects q listed
ProjectsData(q) ==
  [js |-> "object",
   hub |-> [js |-> "object",
            projects |-> [js |-> "object", pagination |-> Pagination,
                          results |-> Arr([i \in DOMAIN q |-> Project(q[i])])]]]

ProjectsResults ==
  {EmptyObj, [js |-> "object", hub |-> Null],
   [js |-> "object", hub |-> [js |-> "object", projects |-> Null]],
   [js |-> "object",
    hub |-> [js |-> "object",
             projects |-> [js |-> "object", pagination |-> Pagination]]]} \cup
  {ProjectsData(q) : q \in SeqsUpTo(ProjectIds, MaxProjects)}

\* ------------------------------------------------------------------ state
VARIABLES
  api,            \* api[r]: invocation r of apiService.getProjects
  env,            \* the process environment the configuration is read from
  proc,           \* the process: "starting", "serving" or "exited"
  route,          \* route[r]: the route of the request in slot r
  session,        \* session[s]: the accessToken property of session s
  pc,             \* pc[r]: where invocation r is suspended
  sess,           \* sess[r]: the session of the request (req.session)
  code,           \* code[r]: req.query.code
  tokens,         \* tokens[r]: the handler's local tokens (response.data)
  accessToken,    \* accessToken[r]: the handler's local accessToken
  client,         \* client[r]: headers of the GraphQLClient of the invocation
  hubsResult,     \* hubsResult[r]: the local hubsResult
  hubId,          \* hubId[r]: the local hubId
  projectsResult, \* projectsResult[r]: the local projectsResult
  failure,        \* failure[r]: the rejection the invocation caught
  result,         \* result[r]: what performGraphQLQuery returned
  res,            \* res[r]: the HTTP response sent
  trace           \* trace[r]: the outbound calls and effects of the invocation

vars == <<api, env, proc, route, session, pc, sess, code, tokens, accessToken, client, hubsResult, hubId,
          projectsResult, failure, result, res, trace>>

NoResponse == [sent |-> FALSE]
NoClient == [made |-> FALSE]

\* res.status(n).json(v)
Respond(n, v) == [sent |-> TRUE, status |-> n, body |-> Json(v)]

NoFailure == [caught |-> FALSE]

\* the locals of an invocation before it has assigned them
Fresh(r, s, c) ==
  /\ sess' = [sess EXCEPT ![r] = s]
  /\ code' = [code EXCEPT ![r] = c]
  /\ tokens' = [tokens EXCEPT ![r] = Undefined]
  /\ accessToken' = [accessToken EXCEPT ![r] = Undefined]
  /\ client' = [client EXCEPT ![r] = NoClient]
  /\ hubsResult' = [hubsResult EXCEPT ![r] = Undefined]
  /\ hubId' = [hubId EXCEPT ![r] = Undefined]
  /\ projectsResult' = [projectsResult EXCEPT ![r] = Undefined]
  /\ failure' = [failure EXCEPT ![r] = NoFailure]
  /\ result' = [result EXCEPT ![r] = Undefined]

\* an invocation of apiService.getProjects that has not started
ApiIdle ==
  [pc |-> "idle", accessToken |-> Undefined, tokenReply |-> Undefined,
   hubsReply |-> Undefined, calls |-> <<>>, out |-> Undefined]

Init ==
  /\ api = [r \in Reqs |-> ApiIdle]
  /\ env \in Envs
  /\ proc = "starting"
  /\ route = [r \in Reqs |-> "none"]
  /\ session = [s \in Sessions |-> Undefined]
  /\ pc = [r \in Reqs |-> "idle"]
  /\ sess = [r \in Reqs |-> "s1"]
  /\ code = [r \in Reqs |-> Undefined]
  /\ tokens = [r \in Reqs |-> Undefined]
  /\ accessToken = [r \in Reqs |-> Undefined]
  /\ client = [r \in Reqs |-> NoClient]
  /\ hubsResult = [r \in Reqs |-> Undefined]
  /\ hubId = [r \in Reqs |-> Undefined]
  /\ projectsResult = [r \in Reqs |-> Undefined]
  /\ failure = [r \in Reqs |-> NoFailure]
  /\ result = [r \in Reqs |-> Undefined]
  /\ res = [r \in Reqs |-> NoResponse]
  /\ trace = [r \in Reqs |-> <<>>]

\* -------------------------------------------------- graphql_client.ts
\* one client made by the first invocation and reused by the later ones
createGraphQLClient_Singleton(token) ==
  IF \E q \in Reqs : client[q].made
  THEN CHOOSE c \in {client[q] : q \in {x \in Reqs : client[x].made}} : TRUE
  ELSE [made |-> TRUE,
        Authorization |-> "Bearer " \o ToStr(token),
        ContentType |-> "application/json"]

\* createGraphQLClient: the headers every request of the client carries
createGraphQLClient(token) ==
  [made |-> TRUE,
   Authorization |-> "Bearer " \o ToStr(token),
   ContentType |-> "application/json"]

\* ------------------------------------------------- performGraphQLQuery
\* hubsResult.hubs?.results
HubsOf(hr) == OptGet(Get(hr, "hubs"), "results")

\* the emptiness test without its length check
NoHubs_NoLengthCheck(hubs) == Falsy(hubs)

\* !hubs || hubs.length === 0
NoHubs(hubs) == Falsy(hubs) \/ Len(hubs.items) = 0

\* the first hub unless a finished invocation already queried it, then the
\* second
SelectedHub_Rotating(hubs) ==
  At(hubs, IF \E q \in Reqs : pc[q] = "done" /\ hubId[q] = Get(At(hubs, 0), "id")
           THEN 1 ELSE 0)

\* the last hub instead of the first
SelectedHub_Last(hubs) == At(hubs, Len(hubs.items) - 1)

\* hubs[0]
SelectedHub(hubs) == At(hubs, 0)

\* projectsResult.hub?.projects?.results
ProjectsOf(pr) == OptGet(OptGet(Get(pr, "hub"), "projects"), "results")

\* the emptiness test without its length check
NoProjects_NoLengthCheck(projects) == Falsy(projects)

\* !projects || projects.length === 0
NoProjects(projects) == Falsy(projects) \/ Len(projects.items) = 0

NoHubsError == [js |-> "object", error |-> S("No hubs found or access denied.")]

NoProjectsError(id) ==
  [js |-> "object", error |-> S("No projects found in hub " \o ToStr(id) \o ".")]

\* the projects list returned instead of the whole reply
ProjectsOutcome_ListOnly(pr, id) ==
  IF Falsy(ProjectsOf(pr)) \/ Len(ProjectsOf(pr).items) = 0
  THEN [js |-> "object", error |-> S("No projects found in hub " \o ToStr(id) \o ".")]
  ELSE ProjectsOf(pr)

\* what performGraphQLQuery returns once getProjects(client, id) resolved pr
ProjectsOutcome(pr, id) ==
  IF NoProjects(ProjectsOf(pr)) THEN NoProjectsError(id) ELSE pr

\* a thrown failure reported in the shape of the empty-hubs result
QueryError_Swallowed(message) ==
  [js |-> "object", error |-> S("No hubs found or access denied.")]

QueryError(message) ==
  [js |-> "object",
   error |-> S("An error occurred during the GraphQL query"),
   details |-> message]

\* ------------------------------------------------------------- startup
\* the configuration test with && in place of ||
ConfigMissing_Both(e) == Falsy(e.CLIENT_ID) /\ Falsy(e.CLIENT_SECRET)

\* !CLIENT_ID || !CLIENT_SECRET
ConfigMissing(e) == Falsy(e.CLIENT_ID) \/ Falsy(e.CLIENT_SECRET)

\* the module body: process.exit(1) on a missing configuration, else
\* app.listen
Startup ==
  /\ proc = "starting"
  /\ proc' = IF ConfigMissing(env) THEN "exited" ELSE "serving"
  /\ UNCHANGED <<api, env, route, session, pc, sess, code, tokens, accessToken, client,
                 hubsResult, hubId, projectsResult, failure, result, res, trace>>

\* ------------------------------------------------------------ GET /
REDIRECT_URI == "http://localhost:8080/api/auth/callback"
SCOPES == <<"data:read", "account:read", "viewables:read">>

\* Array.prototype.join
RECURSIVE Join(_, _)
Join(q, sep) ==
  IF Len(q) = 0 THEN ""
  ELSE IF Len(q) = 1 THEN q[1]
  ELSE q[1] \o sep \o Join(Tail(q), sep)

\* the authorize URL: its endpoint and its query parameters
AuthorizeUrl(clientId) ==
  [url |-> "https://developer.api.autodesk.com/authentication/v2/authorize",
   params |-> [response_type |-> "code",
               client_id |-> ToStr(clientId),
               redirect_uri |-> REDIRECT_URI,
               scope |-> Join(SCOPES, " ")]]

\* res.redirect(url)
Redirect(location) == [sent |-> TRUE, status |-> 302, location |-> location]

\* the redirect with the session's token dropped
RootRequest_ResetsSession(r, s) ==
  /\ proc = "serving"
  /\ pc[r] \in {"idle", "done"}
  /\ Fresh(r, s, Undefined)
  /\ route' = [route EXCEPT ![r] = "/"]
  /\ res' = [res EXCEPT ![r] = Redirect(AuthorizeUrl(env.CLIENT_ID))]
  /\ pc' = [pc EXCEPT ![r] = "done"]
  /\ trace' = [trace EXCEPT ![r] = <<[op |-> "respond", status |-> 302]>>]
  /\ session' = [session EXCEPT ![s] = Undefined]
  /\ UNCHANGED <<api, env, proc>>

\* GET / arrives in session s: the handler redirects and returns
RootRequest(r, s) ==
  /\ proc = "serving"
  /\ pc[r] \in {"idle", "done"}
  /\ Fresh(r, s, Undefined)
  /\ route' = [route EXCEPT ![r] = "/"]
  /\ res' = [res EXCEPT ![r] = Redirect(AuthorizeUrl(env.CLIENT_ID))]
  /\ pc' = [pc EXCEPT ![r] = "done"]
  /\ trace' = [trace EXCEPT ![r] = <<[op |-> "respond", status |-> 302]>>]
  /\ UNCHANGED <<api, env, proc, session>>

\* ------------------------------------------------------ callback handler
\* the missing code reported with the message of the token failure
MissingCodeError_WrongMessage ==
  [js |-> "object", error |-> S("Failed to obtain access token")]

MissingCodeError == [js |-> "object", error |-> S("Authorization code not found")]

\* the token failure reported without its details
TokenError_NoDetails(message) ==
  [js |-> "object", error |-> S("Failed to obtain access token")]

TokenError(message) ==
  [js |-> "object", error |-> S("Failed to obtain access token"), details |-> message]

Caught(where, message) == [caught |-> TRUE, at |-> where, message |-> message]

\* the handler sends its response and returns
Send(r, n, v) ==
  /\ res' = [res EXCEPT ![r] = Respond(n, v)]
  /\ pc' = [pc EXCEPT ![r] = "done"]
  /\ trace' = [trace EXCEPT ![r] = Append(@, [op |-> "respond", status |-> n])]

\* performGraphQLQuery returns v; the handler sends it with res.json
Return(r, v) ==
  /\ result' = [result EXCEPT ![r] = v]
  /\ Send(r, 200, v)

\* the token kept in one slot shared by all sessions
StoreToken_Shared(s, v) == session' = [x \in Sessions |-> v]

\* req.session.accessToken = v, in session s
StoreToken(s, v) == session' = [session EXCEPT ![s] = v]

\* GET /api/auth/callback arrives in session s with query parameter code = c:
\* the handler runs up to its first await
CallbackRequest(r, s, c) ==
  /\ proc = "serving"
  /\ pc[r] \in {"idle", "done"}
  /\ Fresh(r, s, c)
  /\ route' = [route EXCEPT ![r] = "/api/auth/callback"]
  /\ IF Falsy(c)
     THEN /\ res' = [res EXCEPT ![r] = Respond(400, MissingCodeError)]
          /\ pc' = [pc EXCEPT ![r] = "done"]
          /\ trace' = [trace EXCEPT ![r] = <<[op |-> "respond", status |-> 400]>>]
     ELSE /\ res' = [res EXCEPT ![r] = NoResponse]
          /\ pc' = [pc EXCEPT ![r] = "token"]
          /\ trace' = [trace EXCEPT ![r] = <<[op |-> "token", code |-> c]>>]
  /\ UNCHANGED <<api, env, proc, session>>

\* a rejected token call after which the session's token is dropped
TokenRejected_ClearsSession(r, m) ==
  /\ pc[r] = "token"
  /\ failure' = [failure EXCEPT ![r] = Caught("axios.post", S(m))]
  /\ Send(r, 500, TokenError(S(m)))
  /\ session' = [session EXCEPT ![sess[r]] = Undefined]
  /\ UNCHANGED <<api, env, proc, route, sess, code, tokens, accessToken, client,
                 hubsResult, hubId, projectsResult, result>>

\* a rejected token call that escapes the handler: no response is sent
TokenRejected_Unhandled(r, m) ==
  /\ pc[r] = "token"
  /\ failure' = [failure EXCEPT ![r] = Caught("axios.post", S(m))]
  /\ pc' = [pc EXCEPT ![r] = "done"]
  /\ UNCHANGED <<res, trace>>
  /\ UNCHANGED <<api, env, proc, route, session, sess, code, tokens, accessToken, client,
                 hubsResult, hubId, projectsResult, result>>

\* a rejected token call retried once before it is reported
TokenRejected_Retry(r, m) ==
  /\ pc[r] = "token"
  /\ IF Len(SelectSeq(trace[r], LAMBDA e : e.op = "token")) < 2
     THEN /\ trace' = [trace EXCEPT ![r] = Append(@, [op |-> "token", code |-> code[r]])]
          /\ UNCHANGED <<pc, failure, res>>
     ELSE /\ failure' = [failure EXCEPT ![r] = Caught("axios.post", S(m))]
          /\ res' = [res EXCEPT ![r] = Respond(500, TokenError(S(m)))]
          /\ pc' = [pc EXCEPT ![r] = "done"]
          /\ trace' = [trace EXCEPT ![r] = Append(@, [op |-> "respond", status |-> 500])]
  /\ UNCHANGED <<api, env, proc, route, session, sess, code, tokens, accessToken, client, hubsResult, hubId,
                 projectsResult, result>>

\* axios.post rejects with an error whose message is m: the handler's catch
TokenRejected(r, m) ==
  /\ pc[r] = "token"
  /\ failure' = [failure EXCEPT ![r] = Caught("axios.post", S(m))]
  /\ Send(r, 500, TokenError(S(m)))
  /\ UNCHANGED <<api, env, proc, route, session, sess, code, tokens, accessToken, client, hubsResult, hubId,
                 projectsResult, result>>

\* the orchestration started before the token is stored
TokenResolved_QueryFirst(r, data) ==
  /\ pc[r] = "token"
  /\ tokens' = [tokens EXCEPT ![r] = data]
  /\ IF data.js \in {"undefined", "null"}
     THEN /\ failure' = [failure EXCEPT
               ![r] = Caught("tokens.access_token",
                             TypeErrorMessage(data, "access_token"))]
          /\ Send(r, 500, TokenError(TypeErrorMessage(data, "access_token")))
          /\ UNCHANGED <<session, accessToken, client>>
     ELSE /\ accessToken' = [accessToken EXCEPT ![r] = Get(data, "access_token")]
          /\ StoreToken(sess[r], Get(data, "access_token"))
          /\ client' = [client EXCEPT
               ![r] = createGraphQLClient(Get(data, "access_token"))]
          /\ pc' = [pc EXCEPT ![r] = "hubs"]
          /\ trace' = [trace EXCEPT ![r] =
               @ \o <<[op |-> "getHubs",
                       auth |-> createGraphQLClient(
                                  Get(data, "access_token")).Authorization],
                      [op |-> "write", session |-> sess[r],
                       value |-> Get(data, "access_token")]>>]
          /\ UNCHANGED <<failure, res>>
  /\ UNCHANGED <<api, env, proc, route, sess, code, hubsResult, hubId, projectsResult,
                 result>>

\* axios.post resolves with response.data = data: the handler stores the
\* token and runs performGraphQLQuery up to its first await
TokenResolved(r, data) ==
  /\ pc[r] = "token"
  /\ tokens' = [tokens EXCEPT ![r] = data]
  /\ IF data.js \in {"undefined", "null"}
     THEN \* tokens.access_token throws a TypeError: the handler's catch
          /\ failure' = [failure EXCEPT
               ![r] = Caught("tokens.access_token",
                             TypeErrorMessage(data, "access_token"))]
          /\ Send(r, 500, TokenError(TypeErrorMessage(data, "access_token")))
          /\ UNCHANGED <<session, accessToken, client>>
     ELSE /\ accessToken' = [accessToken EXCEPT ![r] = Get(data, "access_token")]
          /\ StoreToken(sess[r], Get(data, "access_token"))
          /\ client' = [client EXCEPT
               ![r] = createGraphQLClient(Get(data, "access_token"))]
          /\ pc' = [pc EXCEPT ![r] = "hubs"]
          /\ trace' = [trace EXCEPT ![r] =
               @ \o <<[op |-> "write", session |-> sess[r],
                       value |-> Get(data, "access_token")],
                      [op |-> "getHubs",
                       auth |-> createGraphQLClient(
                                  Get(data, "access_token")).Authorization]>>]
          /\ UNCHANGED <<failure, res>>
  /\ UNCHANGED <<api, env, proc, route, sess, code, hubsResult, hubId, projectsResult,
                 result>>

\* getHubs rejects with an error whose message is m: the catch of
\* performGraphQLQuery
HubsRejected(r, m) ==
  /\ pc[r] = "hubs"
  /\ failure' = [failure EXCEPT ![r] = Caught("getHubs", S(m))]
  /\ Return(r, QueryError(S(m)))
  /\ UNCHANGED <<api, env, proc, route, session, sess, code, tokens, accessToken, client, hubsResult, hubId,
                 projectsResult>>

\* getHubs resolves with hr
HubsResolved(r, hr) ==
  /\ pc[r] = "hubs"
  /\ hubsResult' = [hubsResult EXCEPT ![r] = hr]
  /\ IF NoHubs(HubsOf(hr))
     THEN /\ Return(r, NoHubsError)
          /\ UNCHANGED <<hubId, failure>>
     ELSE IF SelectedHub(HubsOf(hr)).js \in {"undefined", "null"}
     THEN \* hubs[0].id throws a TypeError: the catch of performGraphQLQuery
          /\ failure' = [failure EXCEPT ![r] =
               Caught("hubs[0].id", TypeErrorMessage(SelectedHub(HubsOf(hr)), "id"))]
          /\ Return(r, QueryError(TypeErrorMessage(SelectedHub(HubsOf(hr)), "id")))
          /\ UNCHANGED hubId
     ELSE /\ hubId' = [hubId EXCEPT ![r] = Get(SelectedHub(HubsOf(hr)), "id")]
          /\ pc' = [pc EXCEPT ![r] = "projects"]
          /\ trace' = [trace EXCEPT ![r] =
               Append(@, [op |-> "getProjects",
                          auth |-> client[r].Authorization,
                          hubId |-> Get(SelectedHub(HubsOf(hr)), "id")])]
          /\ UNCHANGED <<failure, result, res>>
  /\ UNCHANGED <<api, env, proc, route, session, sess, code, tokens, accessToken, client, projectsResult>>

\* getProjects rejects with an error whose message is m
ProjectsRejected(r, m) ==
  /\ pc[r] = "projects"
  /\ failure' = [failure EXCEPT ![r] = Caught("getProjects", S(m))]
  /\ Return(r, QueryError(S(m)))
  /\ UNCHANGED <<api, env, proc, route, session, sess, code, tokens, accessToken, client, hubsResult, hubId,
                 projectsResult>>

\* getProjects resolves with pr
ProjectsResolved(r, pr) ==
  /\ pc[r] = "projects"
  /\ projectsResult' = [projectsResult EXCEPT ![r] = pr]
  /\ Return(r, ProjectsOutcome(pr, hubId[r]))
  /\ UNCHANGED <<api, env, proc, route, session, sess, code, tokens, accessToken, client, hubsResult, hubId,
                 failure>>

\* Requests served one at a time, with every upstream reply of the bounds
Next ==
  \/ Startup
  \/ \E r \in {"r1"} :
       \/ \E s \in Sessions : RootRequest(r, s)
       \/ \E s \in Sessions, c \in CodeParams : CallbackRequest(r, s, c)
       \/ \E m \in Messages : TokenRejected(r, m)
       \/ \E data \in TokenDatas : TokenResolved(r, data)
       \/ \E m \in Messages : HubsRejected(r, m)
       \/ \E hr \in HubsResults : HubsResolved(r, hr)
       \/ \E m \in Messages : ProjectsRejected(r, m)
       \/ \E pr \in ProjectsResults : ProjectsResolved(r, pr)

Spec == Init /\ [][Next]_vars

\* Every outbound call an invocation awaits is eventually answered: it
\* resolves or it is rejected
UpstreamAnswers ==
  \A r \in {"r1"} :
    /\ WF_vars(\/ \E m \in Messages : TokenRejected(r, m)
               \/ \E data \in TokenDatas : TokenResolved(r, data))
    /\ WF_vars(\/ \E m \in Messages : HubsRejected(r, m)
               \/ \E hr \in HubsResults : HubsResolved(r, hr))
    /\ WF_vars(\/ \E m \in Messages : ProjectsRejected(r, m)
               \/ \E pr \in ProjectsResults : ProjectsResolved(r, pr))

SpecLive == Init /\ [][Next]_vars /\ UpstreamAnswers

\* Two invocations interleaved at their awaits, with a few replies of each
\* call
NextConcurrent ==
  \/ Startup
  \/ \E r \in Reqs :
       \/ \E s \in Sessions, c \in {Undefined, S("c1")} : CallbackRequest(r, s, c)
       \/ TokenRejected(r, "e1")
       \/ \E data \in TokenDatas \ {Null} : TokenResolved(r, data)
       \/ HubsRejected(r, "e1")
       \/ \E hr \in {HubsData(<<>>), HubsData(<<"h1">>), HubsData(<<"h2", "h1">>)} :
            HubsResolved(r, hr)
       \/ ProjectsRejected(r, "e1")
       \/ \E pr \in {ProjectsData(<<>>), ProjectsData(<<"p1">>)} :
            ProjectsResolved(r, pr)

SpecConcurrent == Init /\ [][NextConcurrent]_vars

\* ------------------------------------------------- services/apiService.js
\* a hub of the reply of GET project/v1/hubs
RestHub(id) ==
  [js |-> "object", type |-> S("hubs"), id |-> S(id),
   attributes |-> [js |-> "object", name |-> S("Hub " \o id)]]

\* response.data of GET project/v1/hubs
RestHubsBodies ==
  {EmptyObj} \cup
  {[js |-> "object", data |-> Arr([i \in DOMAIN q |-> RestHub(q[i])])] :
     q \in SeqsUpTo(HubIds, MaxHubs)}

\* a reply of an upstream call: rejected with a message, or resolved with data
Rejected(m) == [rejected |-> TRUE, message |-> m]
Resolved(data) == [rejected |-> FALSE, data |-> data]

\* getAccessToken: the access_token of the reply, null when the call fails
\* (a rejection, or the TypeError of reading a null body, both caught)
getAccessToken(reply) ==
  IF reply.rejected \/ reply.data.js \in {"undefined", "null"}
  THEN Null
  ELSE Get(reply.data, "access_token")

\* the token test that lets null through
TokenUnavailable_UndefinedOnly(tok) == tok = Undefined

\* !accessToken
TokenUnavailable(tok) == Falsy(tok)

\* (hub) => ({ id: hub.id, name: hub.attributes.name })
MapHub(hub) ==
  [js |-> "object", id |-> Get(hub, "id"),
   name |-> Get(Get(hub, "attributes"), "name")]

\* what getProjects returns once api.get resolved with response.data = body:
\* the mapped hubs, or [] when the mapping throws
ListedProjects(body) ==
  IF Get(body, "data").js # "array"
       \/ \E i \in 1..Len(Get(body, "data").items) :
            \/ Absent(Get(body, "data").items[i])
            \/ Absent(Get(Get(body, "data").items[i], "attributes"))
  THEN Arr(<<>>)
  ELSE Arr([i \in 1..Len(body.data.items) |-> MapHub(body.data.items[i])])

\* the projects resolver calls apiService.getProjects, which runs up to the
\* await of axios.post in getAccessToken
ListProjects(r) ==
  /\ api[r].pc \in {"idle", "done"}
  /\ api' = [api EXCEPT ![r] =
       [ApiIdle EXCEPT !.pc = "token", !.calls = <<[op |-> "token"]>>]]
  /\ UNCHANGED <<env, proc, route, session, pc, sess, code, tokens, accessToken,
                 client, hubsResult, hubId, projectsResult, failure, result, res,
                 trace>>

\* the token call is answered: getAccessToken returns, and getProjects
\* returns [] or runs up to the await of api.get
ApiTokenReplied(r, reply) ==
  /\ api[r].pc = "token"
  /\ api' = [api EXCEPT ![r] =
       IF TokenUnavailable(getAccessToken(reply))
       THEN [@ EXCEPT !.pc = "done", !.tokenReply = reply,
                      !.accessToken = getAccessToken(reply),
                      !.out = Arr(<<>>)]
       ELSE [@ EXCEPT !.pc = "hubs", !.tokenReply = reply,
                      !.accessToken = getAccessToken(reply),
                      !.calls = Append(@, [op |-> "hubs",
                                           auth |-> "Bearer "
                                             \o ToStr(getAccessToken(reply))])]]
  /\ UNCHANGED <<env, proc, route, session, pc, sess, code, tokens, accessToken,
                 client, hubsResult, hubId, projectsResult, failure, result, res,
                 trace>>

\* the hubs request is answered: getProjects returns
ApiHubsReplied(r, reply) ==
  /\ api[r].pc = "hubs"
  /\ api' = [api EXCEPT ![r] =
       [@ EXCEPT !.pc = "done", !.hubsReply = reply,
                 !.out = IF reply.rejected THEN Arr(<<>>)
                         ELSE ListedProjects(reply.data)]]
  /\ UNCHANGED <<env, proc, route, session, pc, sess, code, tokens, accessToken,
                 client, hubsResult, hubId, projectsResult, failure, result, res,
                 trace>>

\* the replies of the token endpoint and of the hubs endpoint
ApiTokenReplies ==
  {Rejected(S(m)) : m \in Messages} \cup {Resolved(d) : d \in TokenDatas}

ApiHubsReplies ==
  {Rejected(S(m)) : m \in Messages} \cup {Resolved(b) : b \in RestHubsBodies}

NextApi ==
  \E r \in Reqs :
    \/ ListProjects(r)
    \/ \E reply \in ApiTokenReplies : ApiTokenReplied(r, reply)
    \/ \E reply \in ApiHubsReplies : ApiHubsReplied(r, reply)

SpecApi == Init /\ [][NextApi]_vars

\* ================================================================ claims
\* the getProjects calls invocation r has issued
ProjectsCalls(r) == SelectSeq(trace[r], LAMBDA e : e.op = "getProjects")

\* the getHubs calls invocation r has issued
HubsCalls(r) == SelectSeq(trace[r], LAMBDA e : e.op = "getHubs")

\* the session writes invocation r has made
Writes(r) == SelectSeq(trace[r], LAMBDA e : e.op = "write")

\* getHubs resolved for r, and the list of hubs of its reply (hubs.results)
HubsReplied(r) == hubsResult[r] # Undefined
HubsListed(r) == OptGet(Get(hubsResult[r], "hubs"), "results")

\* getProjects resolved for r, and the list of projects of its reply
ProjectsReplied(r) == projectsResult[r] # Undefined
ProjectsListed(r) ==
  OptGet(OptGet(Get(projectsResult[r], "hub"), "projects"), "results")

\* C1: when the reply of getHubs lists no hubs (hubs.results absent or an
\* empty list), performGraphQLQuery returns exactly
\* { error: "No hubs found or access denied." } and the invocation issues no
\* getProjects call.
C1_NoHubsStops ==
  \A r \in Reqs :
    (HubsReplied(r) /\ (Absent(HubsListed(r)) \/ HubsListed(r) = Arr(<<>>)))
      => /\ result[r] = [js |-> "object",
                         error |-> S("No hubs found or access denied.")]
         /\ ProjectsCalls(r) = <<>>

C1_Witness ==
  \E r \in Reqs :
    /\ hubsResult[r] = HubsData(<<>>)
    /\ pc[r] = "done"
    /\ result[r] = NoHubsError

\* C2: when the reply of getHubs lists at least one hub, the invocation calls
\* getProjects exactly once, with the id of the first hub of the list.
C2_FirstHubOnly ==
  \A r \in Reqs :
    (HubsReplied(r) /\ ~Absent(HubsListed(r)) /\ Len(HubsListed(r).items) > 0)
      => /\ Len(ProjectsCalls(r)) = 1
         /\ ProjectsCalls(r)[1].hubId = HubsListed(r).items[1].id

C2_Witness ==
  \E r \in Reqs :
    /\ hubsResult[r] = HubsData(<<"h2", "h1">>)
    /\ pc[r] = "done"
    /\ Len(ProjectsCalls(r)) = 1
    /\ ProjectsCalls(r)[1].hubId = S("h2")

\* C3: a callback request without a code parameter is answered with exactly
\* HTTP 400 and the body { error: "Authorization code not found" }.
C3_MissingCode400 ==
  \A r \in Reqs :
    (route[r] = "/api/auth/callback" /\ code[r] = Undefined)
      => res[r] = [sent |-> TRUE, status |-> 400,
                   body |-> [js |-> "object",
                             error |-> S("Authorization code not found")]]

C3_Witness ==
  \E r \in Reqs :
    /\ route[r] = "/api/auth/callback"
    /\ pc[r] = "done"
    /\ code[r] = Undefined
    /\ res[r].sent
    /\ res[r].status = 400

\* C4: when the token-endpoint call of an invocation fails with message m, the
\* response is HTTP 500 with error "Failed to obtain access token" and
\* details m.
C4_TokenFailure500 ==
  \A r \in Reqs :
    (failure[r].caught /\ failure[r].at = "axios.post")
      => res[r] = [sent |-> TRUE, status |-> 500,
                   body |-> [js |-> "object",
                             error |-> S("Failed to obtain access token"),
                             details |-> failure[r].message]]

C4_Witness ==
  \E r \in Reqs :
    /\ failure[r] = Caught("axios.post", S("e2"))
    /\ res[r].sent
    /\ res[r].status = 500
    /\ res[r].body.details = S("e2")

\* C5 (as claimed): a 2xx reply of the token endpoint that carries no usable
\* access_token is answered with HTTP 500 and the orchestrator is not invoked
\* (no getHubs call is issued).
C5_MalformedBody500 ==
  \A r \in Reqs :
    (tokens[r] # Undefined /\ Falsy(Get(tokens[r], "access_token")))
      => /\ res[r].sent
         /\ res[r].status = 500
         /\ HubsCalls(r) = <<>>

\* C6: a rejection of getHubs or getProjects with message m is answered with
\* HTTP 200 and an object { error, details } whose details is m, which is
\* neither of the two empty-result objects.
C6_QueryErrorReported ==
  \A r \in Reqs :
    (failure[r].caught /\ failure[r].at \in {"getHubs", "getProjects"})
      => /\ res[r].sent
         /\ res[r].status = 200
         /\ res[r].body = result[r]
         /\ DOMAIN result[r] = {"js", "error", "details"}
         /\ result[r].details = failure[r].message
         /\ result[r].error # S("No hubs found or access denied.")
         /\ result[r].error #
              S("No projects found in hub " \o ToStr(hubId[r]) \o ".")

C6_Witness ==
  \E r \in Reqs :
    /\ failure[r] = Caught("getProjects", S("e2"))
    /\ res[r].sent
    /\ res[r].status = 200
    /\ res[r].body.details = S("e2")

\* C7: when the projects query for the selected hub H lists no projects
\* (hub.projects.results absent or empty), performGraphQLQuery returns exactly
\* { error: "No projects found in hub H." }, H being the id passed to
\* getProjects, which is the id of the first hub.
C7_NoProjectsNamesHub ==
  \A r \in Reqs :
    (ProjectsReplied(r)
       /\ (Absent(ProjectsListed(r)) \/ ProjectsListed(r) = Arr(<<>>)))
      => /\ Len(ProjectsCalls(r)) = 1
         /\ ProjectsCalls(r)[1].hubId = HubsListed(r).items[1].id
         /\ result[r] =
              [js |-> "object",
               error |-> S("No projects found in hub "
                             \o ProjectsCalls(r)[1].hubId.s \o ".")]

C7_Witness ==
  \E r \in Reqs :
    /\ hubsResult[r] = HubsData(<<"h1", "h2">>)
    /\ projectsResult[r] = ProjectsData(<<>>)
    /\ result[r] = [js |-> "object", error |-> S("No projects found in hub h1.")]

\* C8: when the projects query lists at least one project, performGraphQLQuery
\* returns the reply of getProjects itself and the callback sends it, with
\* every field of it, as the HTTP 200 body.
C8_RawProjectsPayload ==
  \A r \in Reqs :
    (ProjectsReplied(r) /\ ~Absent(ProjectsListed(r))
       /\ Len(ProjectsListed(r).items) > 0)
      => /\ result[r] = projectsResult[r]
         /\ res[r] = [sent |-> TRUE, status |-> 200, body |-> projectsResult[r]]

C8_Witness ==
  \E r \in Reqs :
    /\ projectsResult[r] = ProjectsData(<<"p1">>)
    /\ res[r].sent
    /\ res[r].status = 200
    /\ res[r].body.hub.projects.results.items[1].name = S("Project p1")
    /\ res[r].body.hub.projects.pagination.cursor = Null

C10_AbsentOrNonEmptyToken ==
  \A s \in Sessions :
    session[s] = Undefined \/ (session[s].js = "string" /\ session[s].s # "")

\* the token-endpoint calls invocation r has issued
TokenCalls(r) == SelectSeq(trace[r], LAMBDA e : e.op = "token")

\* C11: an invocation of the callback that carries a code has issued exactly
\* one token-endpoint call, at every point of its run and whether the call
\* resolved or was rejected.
C11_OneTokenCall ==
  \A r \in Reqs :
    (pc[r] # "idle" /\ ~Falsy(code[r])) => Len(TokenCalls(r)) = 1

C11_Witness ==
  \E r \in Reqs :
    /\ pc[r] = "done"
    /\ code[r] = S("c1")
    /\ failure[r].caught
    /\ failure[r].at = "axios.post"
    /\ Len(TokenCalls(r)) = 1

\* the reply invocation r got from getHubs, and from getProjects
HubsReplyOf(r) ==
  IF failure[r].caught /\ failure[r].at = "getHubs"
  THEN [rejected |-> failure[r].message]
  ELSE [resolved |-> hubsResult[r]]

ProjectsReplyOf(r) ==
  IF failure[r].caught /\ failure[r].at = "getProjects"
  THEN [rejected |-> failure[r].message]
  ELSE [resolved |-> projectsResult[r]]

\* r and q ran the orchestration to its end with the same token
SameTokenRuns(r, q) ==
  /\ r # q
  /\ pc[r] = "done" /\ pc[q] = "done"
  /\ HubsCalls(r) # <<>> /\ HubsCalls(q) # <<>>
  /\ accessToken[r] = accessToken[q]

\* the backend answered r and q alike: the same reply to getHubs, and the
\* same reply to getProjects where both asked for the same hub
UnchangedBackend(r, q) ==
  /\ HubsReplyOf(r) = HubsReplyOf(q)
  /\ (ProjectsCalls(r) # <<>> /\ ProjectsCalls(r) = ProjectsCalls(q))
       => ProjectsReplyOf(r) = ProjectsReplyOf(q)

\* C12: two runs of performGraphQLQuery with the same token against an
\* unchanged backend issue the same calls and yield the same result and
\* the same response, in whatever order their steps interleave.
C12_Idempotent ==
  \A r \in Reqs, q \in Reqs :
    (SameTokenRuns(r, q) /\ UnchangedBackend(r, q))
      => /\ ProjectsCalls(r) = ProjectsCalls(q)
         /\ result[r] = result[q]
         /\ res[r] = res[q]

C12_Witness ==
  \E r \in Reqs, q \in Reqs :
    /\ SameTokenRuns(r, q)
    /\ UnchangedBackend(r, q)
    /\ accessToken[r] = S("t1")
    /\ hubsResult[r] = HubsData(<<"h2", "h1">>)
    /\ projectsResult[r] = ProjectsData(<<>>)
    /\ result[q] = [js |-> "object", error |-> S("No projects found in hub h2.")]

\* slot r took a step
Stepped(r) ==
  \/ pc'[r] # pc[r]
  \/ route'[r] # route[r]
  \/ sess'[r] # sess[r]
  \/ res'[r] # res[r]
  \/ trace'[r] # trace[r]

\* C13: GET / answers with a redirect to the authorize endpoint carrying
\* response_type=code, the configured client id, the fixed redirect URI and
\* the three scopes joined by spaces; it issues no outbound call, and the
\* step that serves it changes the accessToken of no session.
C13_RootRedirects ==
  /\ [](\A r \in Reqs :
          route[r] = "/" =>
            /\ pc[r] = "done"
            /\ trace[r] = <<[op |-> "respond", status |-> 302]>>
            /\ res[r] =
                 [sent |-> TRUE, status |-> 302,
                  location |->
                    [url |-> "https://developer.api.autodesk.com/authentication/v2/authorize",
                     params |->
                       [response_type |-> "code",
                        client_id |-> env.CLIENT_ID.s,
                        redirect_uri |-> "http://localhost:8080/api/auth/callback",
                        scope |-> "data:read account:read viewables:read"]]])
  /\ [][\A r \in Reqs : (route'[r] = "/" /\ Stepped(r)) => session' = session]_vars

\* GET / served in a session that holds a token
C13_Witness ==
  \E r \in Reqs :
    /\ route[r] = "/"
    /\ res[r].sent
    /\ res[r].status = 302
    /\ session[sess[r]] = S("t1")

\* C14: when the client id or the client secret is absent from the
\* environment the process never serves: no request is handled, no response
\* is sent and no outbound call is issued.
C14_MissingConfigNeverServes ==
  (Falsy(env.CLIENT_ID) \/ Falsy(env.CLIENT_SECRET))
    => /\ proc # "serving"
       /\ \A r \in Reqs :
            /\ pc[r] = "idle"
            /\ route[r] = "none"
            /\ ~res[r].sent
            /\ trace[r] = <<>>

C14_Witness ==
  /\ env.CLIENT_ID = S("cid")
  /\ env.CLIENT_SECRET = Undefined
  /\ proc = "exited"

\* the kinds of the events of invocation r, in the order they happened
Ops(r) == [i \in 1..Len(trace[r]) |-> trace[r][i].op]

\* C15: within a callback invocation the token call comes first; the session
\* is written only once that call has resolved, and before getHubs is called;
\* getProjects is called only once getHubs has resolved with a non-empty
\* list; the response is the last event; and while a call is awaited every
\* earlier call of the invocation has been answered.
C15_StrictOrder ==
  \A r \in Reqs :
    route[r] = "/api/auth/callback" =>
      /\ pc[r] = "token" =>
           /\ Ops(r) = <<"token">>
           /\ tokens[r] = Undefined
      /\ pc[r] = "hubs" =>
           /\ Ops(r) = <<"token", "write", "getHubs">>
           /\ hubsResult[r] = Undefined
      /\ pc[r] = "projects" =>
           /\ Ops(r) = <<"token", "write", "getHubs", "getProjects">>
           /\ projectsResult[r] = Undefined
      /\ pc[r] = "done" =>
           Ops(r) \in {<<"respond">>,
                       <<"token", "respond">>,
                       <<"token", "write", "getHubs", "respond">>,
                       <<"token", "write", "getHubs", "getProjects", "respond">>}
      /\ Writes(r) # <<>> => tokens[r].js = "object"
      /\ ProjectsCalls(r) # <<>> =>
           /\ ~Absent(HubsListed(r))
           /\ Len(HubsListed(r).items) > 0

C15_Witness ==
  \E r \in Reqs :
    /\ pc[r] = "done"
    /\ Ops(r) = <<"token", "write", "getHubs", "getProjects", "respond">>
    /\ res[r].sent
    /\ res[r].status = 200

\* the Authorization header made of the token of r's own token exchange
OwnBearer(r) ==
  "Bearer " \o (IF "access_token" \in DOMAIN tokens[r]
                THEN tokens[r].access_token.s ELSE "undefined")

\* the events of r that are GraphQL calls
GraphQLCalls(r) == SelectSeq(trace[r], LAMBDA e : e.op \in {"getHubs", "getProjects"})

\* what r alone returns for the replies r itself received
AloneResult(r) ==
  IF failure[r].caught /\ failure[r].at \in {"getHubs", "getProjects"}
  THEN [js |-> "object",
        error |-> S("An error occurred during the GraphQL query"),
        details |-> failure[r].message]
  ELSE IF Absent(HubsListed(r)) \/ HubsListed(r) = Arr(<<>>)
  THEN [js |-> "object", error |-> S("No hubs found or access denied.")]
  ELSE IF Absent(ProjectsListed(r)) \/ ProjectsListed(r) = Arr(<<>>)
  THEN [js |-> "object",
        error |-> S("No projects found in hub "
                      \o HubsListed(r).items[1].id.s \o ".")]
  ELSE projectsResult[r]

\* C16: however two callback invocations interleave at their awaits, in one
\* session or in two, every GraphQL call of an invocation carries the token
\* of that invocation's own token exchange, and its response is the one it
\* gives alone for the replies it received.
C16_Independent ==
  \A r \in Reqs :
    /\ \A i \in 1..Len(GraphQLCalls(r)) : GraphQLCalls(r)[i].auth = OwnBearer(r)
    /\ (pc[r] = "done" /\ GraphQLCalls(r) # <<>>)
         => res[r] = [sent |-> TRUE, status |-> 200, body |-> AloneResult(r)]

\* r has answered with the calls of its own token while q, of the same
\* session and with another token, is still awaiting getProjects
C16_Witness ==
  \E r \in Reqs, q \in Reqs :
    /\ r # q
    /\ sess[r] = sess[q]
    /\ pc[r] = "done"
    /\ pc[q] = "projects"
    /\ tokens[r] = [js |-> "object", access_token |-> S("t1")]
    /\ tokens[q] = [js |-> "object", access_token |-> S("t2")]
    /\ session[sess[r]] = S("t2")
    /\ Len(ProjectsCalls(r)) = 1
    /\ ProjectsCalls(r)[1].auth = "Bearer t1"
    /\ ProjectsCalls(q)[1].auth = "Bearer t2"
    /\ res[r].status = 200

\* the responses invocation r has sent
Responses(r) == SelectSeq(trace[r], LAMBDA e : e.op = "respond")

\* C17: provided every outbound call is answered, a callback invocation that
\* awaits a call eventually ends with a response; an invocation that has
\* ended has sent exactly one response, of status 400, 500 or 200, and has
\* issued no call twice; and no step of a handler ends the process.
C17_EveryFailureReported ==
  /\ \A r \in Reqs :
       (pc[r] \in {"token", "hubs", "projects"})
         ~> (pc[r] = "done" /\ res[r].sent /\ res[r].status \in {200, 500})
  /\ [](\A r \in Reqs :
          (route[r] = "/api/auth/callback" /\ pc[r] = "done") =>
            /\ res[r].sent
            /\ res[r].status \in {200, 400, 500}
            /\ Len(Responses(r)) = 1
            /\ Len(TokenCalls(r)) <= 1
            /\ Len(HubsCalls(r)) <= 1
            /\ Len(ProjectsCalls(r)) <= 1)
  /\ [][proc = "serving" => proc' = "serving"]_vars

\* a rejected getProjects call answered with HTTP 200
C17_Witness ==
  \E r \in Reqs :
    /\ pc[r] = "done"
    /\ failure[r].caught
    /\ failure[r].at = "getProjects"
    /\ res[r].sent
    /\ res[r].status = 200
    /\ Len(Responses(r)) = 1
    /\ proc = "serving"

\* C18: a callback invocation answered with HTTP 400 or 500 has written no
\* session slot and issued no GraphQL call, and with HTTP 400 no
\* token-endpoint call either; each of its steps leaves the accessToken of
\* every session as it was.
C18_FailureLeavesSession ==
  /\ [](\A r \in Reqs :
          (route[r] = "/api/auth/callback" /\ res[r].sent
             /\ res[r].status \in {400, 500}) =>
            /\ Writes(r) = <<>>
            /\ GraphQLCalls(r) = <<>>
            /\ res[r].status = 400 => TokenCalls(r) = <<>>)
  /\ [][\A r \in Reqs :
          (/\ Stepped(r)
           /\ route'[r] = "/api/auth/callback"
           /\ \/ pc'[r] = "token"
              \/ res'[r].sent /\ res'[r].status \in {400, 500})
            => session' = session]_vars

\* a token failure answered in a session that holds a token
C18_Witness ==
  \E r \in Reqs :
    /\ route[r] = "/api/auth/callback"
    /\ res[r].sent
    /\ res[r].status = 500
    /\ session[sess[r]] = S("t1")
    /\ Writes(r) = <<>>

\* the hubs requests invocation r of the listing has issued
ApiHubsCalls(r) == SelectSeq(api[r].calls, LAMBDA e : e.op = "hubs")

\* C19: apiService.getProjects always returns a list. When the token call
\* fails it returns [] and issues no hubs request; when the hubs request
\* fails it returns []; when the hubs request resolves with a list of hubs
\* it returns the { id, name } of each hub, in the order of the reply.
C19_ListingNeverThrows ==
  \A r \in Reqs :
    api[r].pc = "done" =>
      /\ api[r].out.js = "array"
      /\ (api[r].tokenReply.rejected) =>
           /\ api[r].out = Arr(<<>>)
           /\ ApiHubsCalls(r) = <<>>
      /\ (api[r].hubsReply # Undefined /\ api[r].hubsReply.rejected) =>
           api[r].out = Arr(<<>>)
      /\ (api[r].hubsReply # Undefined /\ ~api[r].hubsReply.rejected
            /\ "data" \in DOMAIN api[r].hubsReply.data) =>
           /\ Len(api[r].out.items) = Len(api[r].hubsReply.data.data.items)
           /\ \A i \in 1..Len(api[r].out.items) :
                api[r].out.items[i] =
                  [js |-> "object",
                   id |-> api[r].hubsReply.data.data.items[i].id,
                   name |-> api[r].hubsReply.data.data.items[i].attributes.name]

C19_Witness ==
  \E r \in Reqs, q \in Reqs :
    /\ api[r].pc = "done"
    /\ api[r].tokenReply = Rejected(S("e1"))
    /\ api[r].out = Arr(<<>>)
    /\ api[q].pc = "done"
    /\ api[q].out = Arr(<<[js |-> "object", id |-> S("h2"), name |-> S("Hub h2")],
                          [js |-> "object", id |-> S("h1"), name |-> S("Hub h1")]>>)

====
